---- MODULE Spec2Model ----
(***************************************************************************)
(* Model of the draft / auto-save / publish content lifecycle of the       *)
(* smart-collab frontend:                                                  *)
(*   - DocumentAutoSave   (src/USER_JOURNEY_FLOW.md, lines 446-659)        *)
(*   - DocumentEditor     (src/src/components/documents/DocumentEditor.tsx)*)
(* The event loop is single threaded: every action below is one handler   *)
(* run to its first await (or to its end), or one continuation run after   *)
(* the awaited gateway promise settled.                                    *)
(***************************************************************************)
EXTENDS Integers, Sequences, FiniteSets, TLC

\* ------------------------------------------------------------------------
\* Bounds of the model
\* ------------------------------------------------------------------------
MaxTimers == 2      \* interval timers the runtime can hold at once
MaxOther == 1       \* publish / discard requests outstanding at once

\* ------------------------------------------------------------------------
\* JavaScript values held as document content
\* ------------------------------------------------------------------------
Null == [t |-> "null", ref |-> 0, ty |-> "", v |-> ""]

Str(s) == [t |-> "string", ref |-> 0, ty |-> "", v |-> s]

Obj(r, ty, s) == [t |-> "object", ref |-> r, ty |-> ty, v |-> s]

\* values the getCurrentContent callback of a manager can return: nothing,
\* a string, a document, the same document as another object, another document
Contents == {Null, Str("a"), Obj(1, "doc", "a"), Obj(2, "doc", "a"), Obj(1, "doc", "b")}

\* the content of the document the manager is created for
LoadedContent == Obj(1, "doc", "a")

\* JSON.stringify: the object identity is not part of the text
Stringify(x) ==
  CASE x.t = "null" -> "null"
    [] x.t = "string" -> "\"" \o x.v \o "\""
    [] OTHER -> "{\"type\":\"" \o x.ty \o "\",\"content\":[{\"text\":\"" \o x.v \o "\"}]}"

\* JSON.stringify and parse at the wire: the object identity is lost
Wire(x) == [x EXCEPT !.ref = 0]

\* ------------------------------------------------------------------------
\* State
\* ------------------------------------------------------------------------
VARIABLES
  autoSaveInterval,           \* DocumentAutoSave.autoSaveInterval, 0 is null
  lastSavedContent,           \* DocumentAutoSave.lastSavedContent
  isAutoSaving,               \* DocumentAutoSave.isAutoSaving
  statusCallback,             \* TRUE iff a status callback is registered
  getCurrentContentCallback,  \* TRUE iff a content callback is registered
  activeTimers,               \* interval timers alive in the runtime
  buffer,                     \* what the content callback returns
  pending,                    \* gateway calls awaiting their response
  emitted,                    \* statuses handed to the callback by the last step
  last,                       \* the last handler run and its outcome
  document,                   \* DocumentEditor state: the loaded Document, NoDoc is null
  content,                    \* DocumentEditor state: the edited content
  title,                      \* DocumentEditor state: the edited title
  documentType,               \* DocumentEditor state: the editor shown
  loading,                    \* DocumentEditor state
  saving,                     \* DocumentEditor state
  autoSaveTimer,              \* autoSaveTimer.current, 0 is null
  timeouts,                   \* timeouts alive in the runtime
  mounted,                    \* TRUE until the component unmounts
  requests,                   \* gateway calls of the editor awaiting their response
  synced,                     \* content (as sent) and title last loaded from or saved to the gateway
  ws,                         \* CollaborativeEditor.ws, 0 is null
  isAuthenticated,            \* CollaborativeEditor.isAuthenticated
  participants,               \* CollaborativeEditor.participants
  cursors,                    \* CollaborativeEditor.cursors (its keys)
  currentUserId,              \* CollaborativeEditor.currentUserId
  sockets,                    \* the WebSocket objects the session created
  connecting,                 \* connect() calls awaiting the WebSocket token
  reconnects,                 \* reconnect timeouts alive in the runtime
  tornDown,                   \* disconnect() was called and connect() was not called since
  event,                      \* the last handler of the session that ran
  called,                     \* the callbacks the last handler invoked
  inbox,                      \* message events queued for the socket of the session
  arrived,                    \* the messages that reached the socket, in arrival order
  applied,                    \* the messages handed to onTextChange, in call order
  tree,                       \* RichTextEditor: the content prop, a document tree
  html,                       \* RichTextEditor: the markup rendered into the editor element
  decoded,                    \* RichTextEditor: the tree parsed from the editor element
  rehtml,                     \* RichTextEditor: the markup rendered from the parsed tree
  stage                       \* RichTextEditor: how far the content went through the codec

asVars == <<autoSaveInterval, lastSavedContent, isAutoSaving, statusCallback,
            getCurrentContentCallback, activeTimers, buffer, pending, emitted,
            last>>

edVars == <<document, content, title, documentType, loading, saving,
            autoSaveTimer, timeouts, mounted, requests, synced>>

coVars == <<ws, isAuthenticated, participants, cursors, currentUserId, sockets,
            connecting, reconnects, tornDown, event, called>>

quVars == <<inbox, arrived, applied>>

cxVars == <<tree, html, decoded, rehtml, stage>>

vars == <<asVars, edVars, coVars, quVars, cxVars>>

TimerIds == 1..MaxTimers

Status(busy, unsaved, msg, err) ==
  [isAutoSaving |-> busy, hasUnsavedChanges |-> unsaved, message |-> msg, isError |-> err]

Request(op, c) == [op |-> op, content |-> c]

\* the outstanding calls have no order of their own: they are kept sorted by
\* operation, a new call after the calls of its operation
Rank(op) == CASE op = "autosave" -> 1 [] op = "discard" -> 2 [] op = "publish" -> 3 [] OTHER -> 4

Enqueue(s, r) ==
  LET k == Cardinality({j \in 1..Len(s) : Rank(s[j].op) <= Rank(r.op)})
  IN SubSeq(s, 1, k) \o <<r>> \o SubSeq(s, k + 1, Len(s))

\* the handler run, what it returned or did, and the gateway response
\* ("ok", "error") it resumed on, "none" for a handler called from outside
Outcome(op, out) == [op |-> op, out |-> out, resp |-> "none"]

Resumed(op, out, resp) == [op |-> op, out |-> out, resp |-> resp]

\* ------------------------------------------------------------------------
\* DocumentAutoSave
\* ------------------------------------------------------------------------
InitAutoSave ==
  /\ autoSaveInterval = 0
  /\ lastSavedContent = Null
  /\ isAutoSaving = FALSE
  /\ statusCallback \in BOOLEAN
  /\ getCurrentContentCallback \in BOOLEAN
  /\ activeTimers = {}
  /\ buffer = LoadedContent
  /\ pending = <<>>
  /\ emitted = <<>>
  /\ last = Outcome("new", "none")

\* updateStatus: the status reaches the callback only if one is registered
updateStatusTwice(st) == IF statusCallback THEN <<st, st>> ELSE <<>>

updateStatus(st) == IF statusCallback THEN <<st>> ELSE <<>>

\* stopAutoSave as a function of the timer state: <<handle, live timers>>
StopLeaky == <<0, activeTimers>>

Stopped ==
  IF autoSaveInterval # 0
    THEN <<0, activeTimers \ {autoSaveInterval}>>
    ELSE <<autoSaveInterval, activeTimers>>

\* the timers startAutoSave leaves alive before it creates the new one
KeptOnRestartNoCancel == activeTimers

KeptOnRestart == IF autoSaveInterval # 0 THEN Stopped[2] ELSE activeTimers

startAutoSave ==
  /\ \E t \in TimerIds : t \notin KeptOnRestart
  /\ LET kept == KeptOnRestart
         t == CHOOSE x \in TimerIds : x \notin kept /\ \A u \in TimerIds : (u \notin kept => x <= u)
     IN /\ autoSaveInterval' = t
        /\ activeTimers' = kept \cup {t}
  /\ emitted' = updateStatus(Status(FALSE, FALSE, "Auto-save enabled", FALSE))
  /\ last' = Outcome("startAutoSave", IF autoSaveInterval # 0 THEN "restarted" ELSE "started")
  /\ UNCHANGED <<edVars, coVars, quVars, cxVars>> /\ UNCHANGED <<lastSavedContent, isAutoSaving, statusCallback,
                 getCurrentContentCallback, buffer, pending>>

stopAutoSave ==
  /\ autoSaveInterval' = Stopped[1]
  /\ activeTimers' = Stopped[2]
  /\ emitted' = <<>>
  /\ last' = Outcome("stopAutoSave", IF autoSaveInterval # 0 THEN "cleared" ELSE "none")
  /\ UNCHANGED <<edVars, coVars, quVars, cxVars>> /\ UNCHANGED <<lastSavedContent, isAutoSaving, statusCallback,
                 getCurrentContentCallback, buffer, pending>>

destroy ==
  /\ autoSaveInterval' = Stopped[1]
  /\ activeTimers' = Stopped[2]
  /\ statusCallback' = FALSE
  /\ getCurrentContentCallback' = FALSE
  /\ emitted' = <<>>
  /\ last' = Outcome("destroy", IF autoSaveInterval # 0 THEN "cleared" ELSE "none")
  /\ UNCHANGED <<edVars, coVars, quVars, cxVars>> /\ UNCHANGED <<lastSavedContent, isAutoSaving, buffer, pending>>

\* first early return of performAutoSave
SkipNoFlag == ~getCurrentContentCallback

SkipInFlight == isAutoSaving \/ ~getCurrentContentCallback

\* second early return of performAutoSave
SkipClean(cur) == Stringify(cur) = Stringify(lastSavedContent)

\* performAutoSave up to its await; caller is "tick" or "forceSave"
performAutoSave(caller) ==
  IF SkipInFlight
    THEN /\ last' = Outcome(caller, "false_inflight")
         /\ emitted' = <<>>
         /\ UNCHANGED <<edVars, coVars, quVars, cxVars>> /\ UNCHANGED <<autoSaveInterval, lastSavedContent, isAutoSaving, statusCallback,
                        getCurrentContentCallback, activeTimers, buffer, pending>>
    ELSE IF SkipClean(buffer)
      THEN /\ last' = Outcome(caller, "false_clean")
           /\ emitted' = <<>>
           /\ UNCHANGED <<edVars, coVars, quVars, cxVars>> /\ UNCHANGED <<autoSaveInterval, lastSavedContent, isAutoSaving, statusCallback,
                          getCurrentContentCallback, activeTimers, buffer, pending>>
      ELSE /\ isAutoSaving' = TRUE
           /\ emitted' = updateStatus(Status(TRUE, TRUE, "Auto-saving...", FALSE))
           /\ pending' = Enqueue(pending, Request("autosave", buffer))
           /\ last' = Outcome(caller, "issued")
           /\ UNCHANGED <<edVars, coVars, quVars, cxVars>> /\ UNCHANGED <<autoSaveInterval, lastSavedContent, statusCallback,
                          getCurrentContentCallback, activeTimers, buffer>>

\* the callback of a live interval timer
Tick(t) ==
  /\ t \in activeTimers
  /\ performAutoSave("tick")

forceSave == performAutoSave("forceSave")

Remove(s, i) == SubSeq(s, 1, i - 1) \o SubSeq(s, i + 1, Len(s))

\* the snapshot after a successful autosave of content c
SnapshotFromBuffer(c) == buffer

SnapshotKept(c) == lastSavedContent

SnapshotOnSuccess(c) == c

\* the snapshot after a failed autosave of content c
SnapshotSetOnFailure(c) == c

SnapshotOnFailure(c) == lastSavedContent

\* the in-flight flag after the finally block
FlagAfterFailStuck == isAutoSaving

FlagAfterFail == FALSE

\* continuation of performAutoSave: the gateway accepted the request
AutoSaveSuccess(i) ==
  /\ i \in 1..Len(pending)
  /\ pending[i].op = "autosave"
  /\ lastSavedContent' = SnapshotOnSuccess(pending[i].content)
  /\ \E unsaved \in BOOLEAN :
       emitted' = updateStatus(Status(FALSE, unsaved, "Auto-saved", FALSE))
  /\ isAutoSaving' = FALSE
  /\ pending' = Remove(pending, i)
  /\ last' = Resumed("performAutoSave", "true", "ok")
  /\ UNCHANGED <<edVars, coVars, quVars, cxVars>> /\ UNCHANGED <<autoSaveInterval, statusCallback, getCurrentContentCallback,
                 activeTimers, buffer>>

\* continuation of performAutoSave: the gateway call threw
AutoSaveFail(i) ==
  /\ i \in 1..Len(pending)
  /\ pending[i].op = "autosave"
  /\ emitted' = updateStatus(Status(FALSE, TRUE, "Auto-save failed", TRUE))
  /\ lastSavedContent' = SnapshotOnFailure(pending[i].content)
  /\ isAutoSaving' = FlagAfterFail
  /\ pending' = Remove(pending, i)
  /\ last' = Resumed("performAutoSave", "false", "error")
  /\ UNCHANGED <<edVars, coVars, quVars, cxVars>> /\ UNCHANGED <<autoSaveInterval, statusCallback,
                 getCurrentContentCallback, activeTimers, buffer>>

Others == Len(SelectSeq(pending, LAMBDA r : r.op # "autosave"))

\* publishDraft up to its await
publishDraft ==
  /\ Others < MaxOther
  /\ emitted' = updateStatus(Status(TRUE, TRUE, "Publishing...", FALSE))
  /\ pending' = Enqueue(pending, Request("publish", Null))
  /\ last' = Outcome("publishDraft", "issued")
  /\ UNCHANGED <<edVars, coVars, quVars, cxVars>> /\ UNCHANGED <<autoSaveInterval, lastSavedContent, isAutoSaving, statusCallback,
                 getCurrentContentCallback, activeTimers, buffer>>

\* discardDraft up to its await
discardDraft ==
  /\ Others < MaxOther
  /\ emitted' = updateStatus(Status(TRUE, TRUE, "Discarding changes...", FALSE))
  /\ pending' = Enqueue(pending, Request("discard", Null))
  /\ last' = Outcome("discardDraft", "issued")
  /\ UNCHANGED <<edVars, coVars, quVars, cxVars>> /\ UNCHANGED <<autoSaveInterval, lastSavedContent, isAutoSaving, statusCallback,
                 getCurrentContentCallback, activeTimers, buffer>>

\* continuation of publishDraft / discardDraft: the gateway accepted
OtherSuccess(i) ==
  /\ i \in 1..Len(pending)
  /\ pending[i].op \in {"publish", "discard"}
  /\ emitted' = updateStatus(Status(FALSE, FALSE,
                   IF pending[i].op = "publish" THEN "Published successfully" ELSE "Draft discarded",
                   FALSE))
  /\ pending' = Remove(pending, i)
  /\ last' = Resumed(IF pending[i].op = "publish" THEN "publishDraft" ELSE "discardDraft", "true", "ok")
  /\ UNCHANGED <<edVars, coVars, quVars, cxVars>> /\ UNCHANGED <<autoSaveInterval, lastSavedContent, isAutoSaving, statusCallback,
                 getCurrentContentCallback, activeTimers, buffer>>

\* continuation of publishDraft / discardDraft: the gateway call threw
OtherFail(i) ==
  /\ i \in 1..Len(pending)
  /\ pending[i].op \in {"publish", "discard"}
  /\ emitted' = updateStatus(Status(FALSE, TRUE,
                   IF pending[i].op = "publish" THEN "Publish failed" ELSE "Discard failed",
                   TRUE))
  /\ pending' = Remove(pending, i)
  /\ last' = Resumed(IF pending[i].op = "publish" THEN "publishDraft" ELSE "discardDraft", "false", "error")
  /\ UNCHANGED <<edVars, coVars, quVars, cxVars>> /\ UNCHANGED <<autoSaveInterval, lastSavedContent, isAutoSaving, statusCallback,
                 getCurrentContentCallback, activeTimers, buffer>>

setGetCurrentContentCallback ==
  /\ getCurrentContentCallback' = TRUE
  /\ emitted' = <<>>
  /\ last' = Outcome("setGetCurrentContentCallback", "none")
  /\ UNCHANGED <<edVars, coVars, quVars, cxVars>> /\ UNCHANGED <<autoSaveInterval, lastSavedContent, isAutoSaving, statusCallback,
                 activeTimers, buffer, pending>>

setStatusCallback ==
  /\ statusCallback' = TRUE
  /\ emitted' = <<>>
  /\ last' = Outcome("setStatusCallback", "none")
  /\ UNCHANGED <<edVars, coVars, quVars, cxVars>> /\ UNCHANGED <<autoSaveInterval, lastSavedContent, isAutoSaving,
                 getCurrentContentCallback, activeTimers, buffer, pending>>

\* the user edits: the buffer is replaced by another value
Edit(c) ==
  /\ c # buffer
  /\ buffer' = c
  /\ emitted' = <<>>
  /\ last' = Outcome("edit", "none")
  /\ UNCHANGED <<edVars, coVars, quVars, cxVars>> /\ UNCHANGED <<autoSaveInterval, lastSavedContent, isAutoSaving, statusCallback,
                 getCurrentContentCallback, activeTimers, pending>>

\* the response of the outstanding autosave call arrives
SettleAutoSave == \E i \in 1..Len(pending) : AutoSaveSuccess(i) \/ AutoSaveFail(i)

\* the response of an outstanding publish or discard call arrives
SettleOther == \E i \in 1..Len(pending) : OtherSuccess(i) \/ OtherFail(i)

NextAutoSave ==
  \/ startAutoSave
  \/ stopAutoSave
  \/ destroy
  \/ \E t \in TimerIds : Tick(t)
  \/ forceSave
  \/ \E i \in 1..Len(pending) : AutoSaveSuccess(i)
  \/ \E i \in 1..Len(pending) : AutoSaveFail(i)
  \/ publishDraft
  \/ discardDraft
  \/ \E i \in 1..Len(pending) : OtherSuccess(i)
  \/ \E i \in 1..Len(pending) : OtherFail(i)
  \/ setGetCurrentContentCallback
  \/ setStatusCallback
  \/ \E c \in Contents : Edit(c)

\* ------------------------------------------------------------------------
\* DocumentEditor (an existing document opened for editing)
\* ------------------------------------------------------------------------
MaxRequests == 2    \* gateway calls of the editor outstanding at once
MaxTimeouts == 2    \* timeouts the runtime can hold at once

DocumentTypes == {"text", "markdown", "rich_text", "wysiwyg"}

EdTexts == {"a", "b"}

TimeoutIds == 1..MaxTimeouts

\* document state before the first load
NoDoc == [content |-> Null, title |-> "", document_type |-> ""]

\* a gateway call of the editor: the body sent and the code path that made it
Call(op, c, path) == [op |-> op, content |-> c, path |-> path]

\* a value is truthy unless it is null or the empty string
Truthy(x) == x.t = "object" \/ (x.t = "string" /\ x.v # "")

\* a !== b: objects by identity, strings by value
StrictNe(a, b) == a # b

\* the condition of the auto-save effect and of the unmount effect
EdDirty(d, c, t) == d # NoDoc /\ (StrictNe(c, d.content) \/ t # d.title)

\* a content value the gateway stores for a document of type ty, parsed
\* into a new object r
LoadedValue(ty, r, s) == IF ty \in {"rich_text", "wysiwyg"} THEN Obj(r, "doc", s) ELSE Str(s)

\* the Documents getDocument can answer with: content and latest_content
\* are absent or parsed into two different objects; a reload answers with
\* the type the document has
GatewayDocuments ==
  { [title |-> "T", document_type |-> ty, content |-> c, latest_content |-> l] :
      ty \in DocumentTypes,
      c \in {Null, Str("a"), Obj(1, "doc", "a")},
      l \in {Null, Str("a"), Str("b"), Obj(2, "doc", "a"), Obj(2, "doc", "b")} }

Answers ==
  { d \in GatewayDocuments :
      /\ document # NoDoc => d.document_type = document.document_type
      /\ d.content \in {Null, LoadedValue(d.document_type, 1, "a")}
      /\ d.latest_content \in {Null} \cup {LoadedValue(d.document_type, 2, s) : s \in EdTexts} }

\* the paragraph document saveDocument builds around a text
Paragraph(s) == Obj(0, "doc", s)

InitEditor ==
  /\ document = NoDoc
  /\ content = Str("")
  /\ title = ""
  /\ documentType = "rich_text"
  /\ loading = TRUE
  /\ saving = FALSE
  /\ autoSaveTimer = 0
  /\ timeouts = {}
  /\ mounted = TRUE
  /\ requests = <<Call("getDocument", Null, "mount")>>
  /\ synced = [content |-> Paragraph(""), title |-> ""]

\* the body the unmount effect hands to autoSaveDocument for content c
SentOnCleanup(ty, c) == c

\* contentToSave of saveDocument for document type ty and content c
contentToSave(ty, c) ==
  IF ty \in {"rich_text", "wysiwyg"}
    THEN IF c.t = "string" THEN Paragraph(c.v)
         ELSE IF ~Truthy(c) \/ c.t # "object" \/ c.ty # "doc" THEN Paragraph("")
         ELSE c
    ELSE IF ty \in {"text", "markdown"}
      THEN IF c.t = "string" THEN Paragraph(c.v)
           ELSE IF ~Truthy(c) \/ c.t # "object" THEN Paragraph("")
           ELSE c
      ELSE c

\* document.document_type || documentType
actualDocumentType == IF document.document_type # "" THEN document.document_type ELSE documentType

\* cleanup of the unmount effect, run with the values of the render it
\* belongs to: the content is auto-saved when the effect condition holds
CleanupSends ==
  IF EdDirty(document, content, title)
    THEN <<Call("autosave", Wire(SentOnCleanup(actualDocumentType, content)), "cleanup")>>
    ELSE <<>>

\* the timeouts left alive by the cleanups (clearTimeout of autoSaveTimer.current)
AfterCleanup == timeouts \ {autoSaveTimer}

\* setTimeout: a timeout with an identifier no live timeout has
FreshTimeout(live) ==
  CHOOSE x \in TimeoutIds : x \notin live /\ \A u \in TimeoutIds : (u \notin live => x <= u)

\* a render that commits document d, content c and title t: when one of the
\* three changed (a Document just loaded is a new object), the cleanups of
\* both effects run with the old values, then the auto-save effect runs with
\* the new ones; reqs is the request list the handler leaves
Commit(d, c, t, loaded, reqs) ==
  /\ document' = d
  /\ content' = c
  /\ title' = t
  /\ IF ~loaded /\ <<d, c, t>> = <<document, content, title>>
       THEN /\ requests' = reqs
            /\ UNCHANGED <<autoSaveTimer, timeouts>>
       ELSE /\ requests' = IF CleanupSends = <<>> THEN reqs ELSE Enqueue(reqs, CleanupSends[1])
            /\ IF EdDirty(d, c, t)
                 THEN /\ autoSaveTimer' = FreshTimeout(AfterCleanup)
                      /\ timeouts' = AfterCleanup \cup {FreshTimeout(AfterCleanup)}
                 ELSE /\ autoSaveTimer' = autoSaveTimer
                      /\ timeouts' = AfterCleanup

CanCommit == Len(requests) < MaxRequests /\ \E x \in TimeoutIds : x \notin AfterCleanup

\* the values the editor shown for documentType can put into content
Typed ==
  IF documentType \in {"rich_text", "wysiwyg"}
    THEN {Obj(IF content.ref = 3 THEN 4 ELSE 3, "doc", s) : s \in EdTexts}
    ELSE {Str(s) : s \in EdTexts}

\* onChange of the editor shown: setContent
EditContent(c) ==
  /\ mounted /\ ~loading /\ document # NoDoc
  /\ CanCommit
  /\ c \in Typed
  /\ Commit(document, c, title, FALSE, requests)
  /\ UNCHANGED <<documentType, loading, saving, mounted, synced>>
  /\ UNCHANGED <<asVars, coVars, quVars, cxVars>>

\* onChange of the title input: setTitle
EditTitle(t) ==
  /\ mounted /\ ~loading /\ document # NoDoc
  /\ CanCommit
  /\ t \in {"T", "U"}
  /\ Commit(document, content, t, FALSE, requests)
  /\ UNCHANGED <<documentType, loading, saving, mounted, synced>>
  /\ UNCHANGED <<asVars, coVars, quVars, cxVars>>

\* saveDocument up to its await, for an existing document
saveDocument(path) ==
  /\ document # NoDoc
  /\ Len(requests) < MaxRequests
  /\ saving' = TRUE
  /\ requests' = Enqueue(requests,
                   Call("autosave", Wire(contentToSave(actualDocumentType, content)), path))
  /\ UNCHANGED <<document, content, title, documentType, loading,
                 autoSaveTimer, mounted, synced>>
  /\ UNCHANGED <<asVars, coVars, quVars, cxVars>>

\* the auto-save timeout fires after 2 seconds
TimerFires(t) ==
  /\ t \in timeouts
  /\ timeouts' = timeouts \ {t}
  /\ saveDocument("timer")

handleTitleSubmit ==
  /\ mounted /\ ~loading /\ document # NoDoc
  /\ UNCHANGED timeouts
  /\ saveDocument("titleSubmit")

\* continuation of saveDocument or of the unmount effect's call
AutoSaveSettles(i, ok) ==
  /\ i \in 1..Len(requests)
  /\ requests[i].op = "autosave"
  /\ requests' = Remove(requests, i)
  /\ IF requests[i].path = "cleanup" \/ ~mounted
       THEN UNCHANGED saving
       ELSE saving' = FALSE
  /\ synced' = IF ok THEN [synced EXCEPT !.content = requests[i].content] ELSE synced
  /\ UNCHANGED <<document, content, title, documentType, loading,
                 autoSaveTimer, timeouts, mounted>>
  /\ UNCHANGED <<asVars, coVars, quVars, cxVars>>

\* publishDraft up to its await
edPublishDraft ==
  /\ mounted /\ ~loading /\ document # NoDoc
  /\ Len(requests) < MaxRequests
  /\ saving' = TRUE
  /\ requests' = Enqueue(requests, Call("publish", Null, "publish"))
  /\ UNCHANGED <<document, content, title, documentType, loading,
                 autoSaveTimer, timeouts, mounted, synced>>
  /\ UNCHANGED <<asVars, coVars, quVars, cxVars>>

\* continuation of publishDraft: on success loadDocument runs to its await
PublishSettles(i, ok) ==
  /\ i \in 1..Len(requests)
  /\ requests[i].op = "publish"
  /\ IF ok
       THEN /\ requests' = Enqueue(Remove(requests, i), Call("getDocument", Null, "publish"))
            /\ IF mounted THEN loading' = TRUE ELSE UNCHANGED loading
            /\ UNCHANGED saving
       ELSE /\ requests' = Remove(requests, i)
            /\ IF mounted THEN saving' = FALSE ELSE UNCHANGED saving
            /\ UNCHANGED loading
  /\ UNCHANGED <<document, content, title, documentType, autoSaveTimer, timeouts,
                 mounted, synced>>
  /\ UNCHANGED <<asVars, coVars, quVars, cxVars>>

\* doc.latest_content || doc.content || ''
contentToLoad(doc) ==
  IF Truthy(doc.latest_content) THEN doc.latest_content
  ELSE IF Truthy(doc.content) THEN doc.content
  ELSE Str("")

\* the fields of the Document stored by setDocument that the editor reads
Stored(doc) == [content |-> doc.content, title |-> doc.title, document_type |-> doc.document_type]

\* continuation of loadDocument: the gateway returned doc
LoadSucceeds(i, doc) ==
  /\ i \in 1..Len(requests)
  /\ requests[i].op = "getDocument"
  /\ doc \in Answers
  /\ IF mounted
       THEN /\ Commit(Stored(doc), contentToLoad(doc), doc.title, TRUE, Remove(requests, i))
            /\ documentType' = doc.document_type
            /\ loading' = FALSE
            /\ saving' = IF requests[i].path = "publish" THEN FALSE ELSE saving
       ELSE /\ requests' = Remove(requests, i)
            /\ UNCHANGED <<document, content, title, documentType, loading, saving,
                           autoSaveTimer, timeouts>>
  /\ synced' = [content |-> Wire(contentToSave(doc.document_type, contentToLoad(doc))),
                 title |-> doc.title]
  /\ UNCHANGED mounted
  /\ UNCHANGED <<asVars, coVars, quVars, cxVars>>

\* continuation of loadDocument: the gateway call threw
LoadFails(i) ==
  /\ i \in 1..Len(requests)
  /\ requests[i].op = "getDocument"
  /\ requests' = Remove(requests, i)
  /\ IF mounted
       THEN /\ loading' = FALSE
            /\ saving' = IF requests[i].path = "publish" THEN FALSE ELSE saving
       ELSE UNCHANGED <<loading, saving>>
  /\ UNCHANGED <<document, content, title, documentType, autoSaveTimer, timeouts,
                 mounted, synced>>
  /\ UNCHANGED <<asVars, coVars, quVars, cxVars>>

\* the Retry button of the error page (shown when no document is loaded
\* and the load failed): loadDocument up to its await
RetryLoad ==
  /\ mounted /\ ~loading /\ document = NoDoc
  /\ Len(requests) < MaxRequests
  /\ loading' = TRUE
  /\ requests' = Enqueue(requests, Call("getDocument", Null, "mount"))
  /\ UNCHANGED <<document, content, title, documentType, saving,
                 autoSaveTimer, timeouts, mounted, synced>>
  /\ UNCHANGED <<asVars, coVars, quVars, cxVars>>

\* the component unmounts: the cleanups of both effects run
Unmount ==
  /\ mounted
  /\ Len(requests) < MaxRequests
  /\ mounted' = FALSE
  /\ timeouts' = AfterCleanup
  /\ requests' = IF CleanupSends = <<>> THEN requests ELSE Enqueue(requests, CleanupSends[1])
  /\ UNCHANGED <<document, content, title, documentType, loading, saving,
                 autoSaveTimer, synced>>
  /\ UNCHANGED <<asVars, coVars, quVars, cxVars>>

NextEditor ==
  \/ \E c \in Typed : EditContent(c)
  \/ \E t \in {"T", "U"} : EditTitle(t)
  \/ \E t \in TimeoutIds : TimerFires(t)
  \/ handleTitleSubmit
  \/ \E i \in 1..Len(requests), ok \in BOOLEAN : AutoSaveSettles(i, ok)
  \/ edPublishDraft
  \/ \E i \in 1..Len(requests), ok \in BOOLEAN : PublishSettles(i, ok)
  \/ \E i \in 1..Len(requests), doc \in Answers : LoadSucceeds(i, doc)
  \/ \E i \in 1..Len(requests) : LoadFails(i)
  \/ RetryLoad
  \/ Unmount

\* ------------------------------------------------------------------------
\* CollaborativeEditor (one session object and the WebSockets it creates)
\* ------------------------------------------------------------------------
MaxSockets == 2     \* WebSocket objects alive or about to be created at once
MaxReconnects == 1  \* reconnect timeouts alive at once

SocketIds == 1..MaxSockets

\* the user the gateway knows the session as, and another participant
LocalUser == "u1"

UserIds == {"u1", "u2"}

\* a field that is absent
Undefined == "undefined"

\* currentUserId of a session constructed without a user id
NullId == "null"

\* user_info / RoomParticipant: the fields the roster claims read
Info(role, cursor) == [user_role |-> role, cursor_position |-> cursor]

NoInfo == Info(Undefined, Undefined)

Infos == {Info("editor", Undefined), Info(Undefined, "p")}

\* an entry of room_joined.participants; user is the user's id
Entry(u, i) == [user |-> u, info |-> i]

\* an inbound message after JSON.parse: has is the set of fields it carries
Msg(type, has, u, i, ps) ==
  [type |-> type, has |-> has, user_id |-> u, user_info |-> i, participants |-> ps]

NoMsg == Msg("none", {}, Undefined, NoInfo, <<>>)

\* the participant lists of a room_joined
Snapshots == {<<Entry("u1", Info("editor", Undefined))>>,
              <<Entry("u1", Info("editor", Undefined)), Entry("u2", Info("editor", "p"))>>}

\* the messages of the protocol, carrying the fields their type requires
HandshakeMessages ==
  {Msg(t, {}, Undefined, NoInfo, <<>>) : t \in {"connection_established", "authenticated", "error"}}
    \cup {Msg("room_joined", {"participants"}, Undefined, NoInfo, ps) : ps \in Snapshots}

RoomMessages ==
  {Msg("user_joined", {"user_id", "user_info"}, u, Info("editor", Undefined), <<>>) : u \in UserIds}
    \cup {Msg("user_left", {"user_id"}, u, NoInfo, <<>>) : u \in UserIds}
    \cup {Msg("user_presence", {"user_id", "user_info"}, u, i, <<>>) : u \in UserIds, i \in Infos}
    \cup {Msg("text_change", {"user_id"}, u, NoInfo, <<>>) : u \in UserIds}
    \cup {Msg("cursor_position", {"user_id", "position"}, u, NoInfo, <<>>) : u \in UserIds}

\* text that does not parse, an unknown type, and messages that lack a
\* field their type requires; the last room_joined lists a participant
\* without a user
MalformedMessages ==
  { Msg("unparseable", {}, Undefined, NoInfo, <<>>),
    Msg("unknown", {}, Undefined, NoInfo, <<>>),
    Msg("room_joined", {}, Undefined, NoInfo, <<>>),
    Msg("room_joined", {"participants"}, Undefined, NoInfo,
        <<Entry("u2", Info("editor", Undefined)), Entry(Undefined, NoInfo)>>),
    Msg("user_joined", {"user_id"}, "u2", NoInfo, <<>>),
    Msg("user_joined", {"user_info"}, Undefined, Info("editor", Undefined), <<>>),
    Msg("user_left", {}, Undefined, NoInfo, <<>>),
    Msg("user_presence", {"user_id"}, "u2", NoInfo, <<>>),
    Msg("text_change", {}, Undefined, NoInfo, <<>>),
    Msg("cursor_position", {"user_id"}, "u2", NoInfo, <<>>) }

Messages == HandshakeMessages \cup RoomMessages \cup MalformedMessages

\* a WebSocket: its readyState ("NONE": no such object), the handshake
\* message types sent on it, and the handshake answers the gateway gave on it
Socket(st, sent, got) == [readyState |-> st, sent |-> sent, got |-> got]

NoSocket == Socket("NONE", {}, {})

\* the handler that ran, the socket that raised it, the message it was
\* given, what it did, and the message it put on which socket
Ev(op, s, m, out, on, type) ==
  [op |-> op, sock |-> s, msg |-> m, out |-> out, sentOn |-> on, sentType |-> type]

\* a callback invocation
Cb(name, arg) == [cb |-> name, arg |-> arg]

\* Array.from(this.participants.values()), as the map it lists
getParticipants(ps) == ps

EmptyMap == [k \in {} |-> NoInfo]

\* constructor(roomId, documentId, currentUserId?): currentUserId || null
constructor(id) ==
  /\ ws = 0
  /\ isAuthenticated = FALSE
  /\ participants = EmptyMap
  /\ cursors = {}
  /\ currentUserId = (IF id \in {Undefined, ""} THEN NullId ELSE id)
  /\ sockets = [s \in SocketIds |-> NoSocket]
  /\ connecting = 0
  /\ reconnects = 0
  /\ tornDown = FALSE
  /\ event = Ev("new", 0, NoMsg, "none", 0, "none")
  /\ called = <<>>

\* send: the message goes out on this.ws, if that socket is open
CanSend(socks, w) == w # 0 /\ socks[w].readyState = "OPEN"

send(socks, w, type) ==
  IF CanSend(socks, w)
    THEN [socks EXCEPT ![w].sent = @ \cup ({type} \cap {"authenticate", "join_room"})]
    ELSE socks

SentOn(socks, w) == IF CanSend(socks, w) THEN w ELSE 0

\* a socket that is closing or closed: nothing is sent or delivered on it
\* any more; whether the gateway rejected it is all that is kept of it
Shut(sock, st) == Socket(st, {}, sock.got \cap {"error"})

\* a closed socket the session no longer refers to is gone
Collect(socks, w) ==
  [s \in SocketIds |-> IF s # w /\ socks[s].readyState = "CLOSED" THEN NoSocket ELSE socks[s]]

\* isConnected()
isConnected == ws # 0 /\ sockets[ws].readyState = "OPEN" /\ isAuthenticated

\* the session is Active: room_joined was received on the open socket this.ws
Active == ws # 0 /\ sockets[ws].readyState = "OPEN" /\ "room_joined" \in sockets[ws].got

\* handleDisconnection: <<isAuthenticated, reconnect timeouts alive>>
handleDisconnectionNoTimer == <<FALSE, reconnects>>

handleDisconnection == <<FALSE, reconnects + 1>>

\* the condition of the reconnect timeout
ReconnectNeeded == ws = 0 \/ sockets[ws].readyState = "CLOSED"

\* the WebSocket objects alive, the closed one this.ws may still refer to
\* left out, and the ones the connect() calls under way will create
Alive == Cardinality({s \in SocketIds : Collect(sockets, 0)[s].readyState # "NONE"}) + connecting

\* connect() up to its await, called by op; hasToken: localStorage holds an
\* access token
connectCall(op, hasToken) ==
  IF hasToken
    THEN /\ Alive < MaxSockets
         /\ connecting' = connecting + 1
         /\ called' = <<>>
         /\ event' = Ev(op, 0, NoMsg, "connect", 0, "none")
    ELSE /\ connecting' = connecting
         /\ called' = <<Cb("onError", "No access token found")>>
         /\ event' = Ev(op, 0, NoMsg, "connect_failed", 0, "none")

\* connect() called from outside
connect ==
  /\ \E hasToken \in BOOLEAN : connectCall("connect", hasToken)
  /\ tornDown' = FALSE
  /\ UNCHANGED <<ws, isAuthenticated, participants, cursors, currentUserId, sockets, reconnects>>
  /\ UNCHANGED <<asVars, edVars, quVars, cxVars>>

\* continuation of connect(): the token arrived, the WebSocket is created
\* and becomes this.ws
TokenArrives ==
  /\ connecting > 0
  /\ LET free == Collect(sockets, 0)
         s == CHOOSE x \in SocketIds :
                /\ free[x].readyState = "NONE"
                /\ \A y \in SocketIds : free[y].readyState = "NONE" => x <= y
     IN /\ ws' = s
        /\ sockets' = [free EXCEPT ![s] = Socket("CONNECTING", {}, {})]
        /\ event' = Ev("token", s, NoMsg, "created", 0, "none")
  /\ connecting' = connecting - 1
  /\ called' = <<>>
  /\ UNCHANGED <<isAuthenticated, participants, cursors, currentUserId, reconnects, tornDown>>
  /\ UNCHANGED <<asVars, edVars, quVars, cxVars>>

\* continuation of connect(): getWebSocketToken threw
TokenFails ==
  /\ connecting > 0
  /\ connecting' = connecting - 1
  /\ called' = <<Cb("onError", "Failed to connect")>>
  /\ event' = Ev("token", 0, NoMsg, "failed", 0, "none")
  /\ UNCHANGED <<ws, isAuthenticated, participants, cursors, currentUserId, sockets, reconnects, tornDown>>
  /\ UNCHANGED <<asVars, edVars, quVars, cxVars>>

\* ws.onopen of socket s: authenticate(wsToken), onConnectionChange(true)
onopen(s) ==
  /\ sockets[s].readyState = "CONNECTING"
  /\ LET opened == [sockets EXCEPT ![s].readyState = "OPEN"]
     IN /\ sockets' = send(opened, ws, "authenticate")
        /\ event' = Ev("onopen", s, NoMsg, "none", SentOn(opened, ws), "authenticate")
  /\ called' = <<Cb("onConnectionChange", "true")>>
  /\ UNCHANGED <<ws, isAuthenticated, participants, cursors, currentUserId, connecting, reconnects, tornDown>>
  /\ UNCHANGED <<asVars, edVars, quVars, cxVars>>

\* ws.onclose of socket s: handleDisconnection(), onConnectionChange(false)
onclose(s) ==
  /\ sockets[s].readyState \in {"CONNECTING", "OPEN", "CLOSING"}
  /\ reconnects < MaxReconnects
  /\ sockets' = Collect([sockets EXCEPT ![s] = Shut(@, "CLOSED")], ws)
  /\ isAuthenticated' = handleDisconnection[1]
  /\ reconnects' = handleDisconnection[2]
  /\ called' = <<Cb("onConnectionChange", "false")>>
  /\ event' = Ev("onclose", s, NoMsg,
                 IF "error" \in sockets[s].got THEN "rejected"
                 ELSE IF s = ws /\ Active THEN "active" ELSE "dropped", 0, "none")
  /\ UNCHANGED <<ws, participants, cursors, currentUserId, connecting, tornDown>>
  /\ UNCHANGED <<asVars, edVars, quVars, cxVars>>

\* ws.onerror of socket s
onerror(s) ==
  /\ sockets[s].readyState \in {"CONNECTING", "OPEN"}
  /\ called' = <<Cb("onError", "WebSocket connection error")>>
  /\ event' = Ev("onerror", 0, NoMsg, "none", 0, "none")
  /\ UNCHANGED <<ws, isAuthenticated, participants, cursors, currentUserId, sockets, connecting,
                 reconnects, tornDown>>
  /\ UNCHANGED <<asVars, edVars, quVars, cxVars>>

\* the reconnect timeout of handleDisconnection fires
ReconnectFires ==
  /\ reconnects > 0
  /\ reconnects' = reconnects - 1
  /\ IF ReconnectNeeded
       THEN \E hasToken \in BOOLEAN : connectCall("timeout", hasToken)
       ELSE /\ connecting' = connecting
            /\ called' = <<>>
            /\ event' = Ev("timeout", 0, NoMsg, "skipped", 0, "none")
  /\ UNCHANGED <<ws, isAuthenticated, participants, cursors, currentUserId, sockets, tornDown>>
  /\ UNCHANGED <<asVars, edVars, quVars, cxVars>>

\* disconnect()
disconnect ==
  /\ sockets' = IF ws # 0
                  THEN Collect([sockets EXCEPT ![ws] =
                                  IF @.readyState \in {"CONNECTING", "OPEN"} THEN Shut(@, "CLOSING") ELSE @], 0)
                  ELSE sockets
  /\ ws' = 0
  /\ isAuthenticated' = FALSE
  /\ participants' = EmptyMap
  /\ cursors' = {}
  /\ tornDown' = TRUE
  /\ called' = <<>>
  /\ event' = Ev("disconnect", 0, NoMsg, "none", 0, "none")
  /\ UNCHANGED <<currentUserId, connecting, reconnects>>
  /\ UNCHANGED <<asVars, edVars, quVars, cxVars>>

\* Map.set and Map.delete
Put(ps, k, v) == [x \in DOMAIN ps \cup {k} |-> IF x = k THEN v ELSE ps[x]]

Delete(ps, k) == [x \in DOMAIN ps \ {k} |-> ps[x]]

\* the first entry of a participant list whose user is missing: reading
\* participant.user.id throws there
FirstBad(ps) ==
  IF \E i \in 1..Len(ps) : ps[i].user = Undefined
    THEN CHOOSE i \in 1..Len(ps) :
           /\ ps[i].user = Undefined
           /\ \A j \in 1..(i - 1) : ps[j].user # Undefined
    ELSE Len(ps) + 1

\* handleRoomJoined: the roster after clear() and the forEach, which stops
\* where it throws
RosterOf(ps) ==
  [u \in {ps[i].user : i \in 1..(FirstBad(ps) - 1)} |->
     LET i == CHOOSE j \in 1..(FirstBad(ps) - 1) :
                /\ ps[j].user = u
                /\ \A k \in (j + 1)..(FirstBad(ps) - 1) : ps[k].user # u
     IN ps[i].info]

handleRoomJoined(m) ==
  IF "participants" \in m.has
    THEN IF FirstBad(m.participants) <= Len(m.participants)
           THEN <<RosterOf(m.participants), cursors, <<>>, "threw">>
           ELSE <<RosterOf(m.participants), cursors,
                  <<Cb("onParticipantsChange", getParticipants(RosterOf(m.participants)))>>, "handled">>
    ELSE <<participants, cursors, <<>>, "ignored">>

handleUserJoined(m) ==
  IF "user_info" \in m.has
    THEN <<Put(participants, m.user_id, m.user_info), cursors,
           <<Cb("onParticipantsChange", getParticipants(Put(participants, m.user_id, m.user_info)))>>,
           "handled">>
    ELSE <<participants, cursors, <<>>, "ignored">>

\* what handleUserLeft leaves in the roster
LeftStays(ps, k) == ps

LeftRemoved(ps, k) == Delete(ps, k)

handleUserLeft(m) ==
  IF "user_id" \in m.has
    THEN <<LeftRemoved(participants, m.user_id), cursors \ {m.user_id},
           <<Cb("onParticipantsChange", getParticipants(LeftRemoved(participants, m.user_id)))>>,
           "handled">>
    ELSE <<participants, cursors, <<>>, "ignored">>

handleUserPresence(m) ==
  IF "user_id" \in m.has /\ "user_info" \in m.has
    THEN <<Put(participants, m.user_id, m.user_info), cursors,
           <<Cb("onParticipantsChange", getParticipants(Put(participants, m.user_id, m.user_info)))>>,
           "handled">>
    ELSE <<participants, cursors, <<>>, "ignored">>

\* data.user_id === this.currentUserId
IsOwnChange(m) == m.user_id = currentUserId

handleTextChange(m) ==
  IF IsOwnChange(m)
    THEN <<participants, cursors, <<>>, "skipped">>
    ELSE <<participants, cursors, <<Cb("onTextChange", m.user_id)>>, "handled">>

handleCursorPosition(m) ==
  IF "user_id" \in m.has /\ "position" \in m.has
    THEN <<participants, cursors, <<Cb("onCursorChange", m.user_id)>>, "handled">>
    ELSE <<participants, cursors, <<>>, "ignored">>

\* the cases of handleMessage that touch neither the flag nor the transport:
\* <<participants, cursors, callbacks invoked, outcome>>
handleMessage(m) ==
  CASE m.type = "room_joined" -> handleRoomJoined(m)
    [] m.type = "user_joined" -> handleUserJoined(m)
    [] m.type = "user_left" -> handleUserLeft(m)
    [] m.type = "text_change" -> handleTextChange(m)
    [] m.type = "cursor_position" -> handleCursorPosition(m)
    [] m.type = "user_presence" -> handleUserPresence(m)
    [] m.type = "error" -> <<participants, cursors, <<Cb("onError", "error")>>, "handled">>
    [] m.type = "unparseable" -> <<participants, cursors, <<>>, "threw">>
    [] OTHER -> <<participants, cursors, <<>>, "ignored">>

\* what the gateway can send on socket s: authenticated or error answers an
\* authenticate, room_joined answers a join_room of an authenticated
\* socket, room traffic goes to sockets in the room; after an error the
\* gateway sends nothing more
CanDeliver(s, m) ==
  /\ sockets[s].readyState = "OPEN"
  /\ "error" \notin sockets[s].got
  /\ CASE m \in MalformedMessages -> TRUE
       [] m.type = "connection_established" -> sockets[s].got = {} /\ sockets[s].sent = {}
       [] m.type \in {"authenticated", "error"} ->
            "authenticate" \in sockets[s].sent /\ "authenticated" \notin sockets[s].got
       [] m.type = "room_joined" ->
            /\ "authenticated" \in sockets[s].got
            /\ "join_room" \in sockets[s].sent
            /\ "room_joined" \notin sockets[s].got
       [] OTHER -> "room_joined" \in sockets[s].got

\* ws.onmessage of socket s: JSON.parse and handleMessage inside try / catch
onmessageHandler(s, m) ==
  /\ m \in Messages
  /\ CanDeliver(s, m)
  /\ LET answered == IF m \in HandshakeMessages /\ m.type # "connection_established"
                       THEN [sockets EXCEPT ![s].got = @ \cup {m.type}]
                       ELSE sockets
         h == handleMessage(m)
     IN IF m = Msg("authenticated", {}, Undefined, NoInfo, <<>>)
          THEN /\ isAuthenticated' = TRUE
               /\ sockets' = send(answered, ws, "join_room")
               /\ event' = Ev("onmessage", s, m, "handled", SentOn(answered, ws), "join_room")
               /\ called' = <<>>
               /\ UNCHANGED <<participants, cursors>>
          ELSE /\ sockets' = answered
               /\ participants' = h[1]
               /\ cursors' = h[2]
               /\ called' = h[3]
               /\ event' = Ev("onmessage", s, m, h[4], 0, "none")
               /\ UNCHANGED isAuthenticated
  /\ UNCHANGED <<ws, currentUserId, connecting, reconnects, tornDown>>
  /\ UNCHANGED <<asVars, edVars, cxVars>>

\* a message event of socket s that is dispatched as it arrives
onmessage(s, m) ==
  /\ onmessageHandler(s, m)
  /\ UNCHANGED quVars

\* the guard of sendTextChange and sendCursorPosition
MaySend == isAuthenticated

\* sendTextChange / sendCursorPosition
sendData(op, type) ==
  /\ IF MaySend
       THEN /\ sockets' = send(sockets, ws, type)
            /\ event' = Ev(op, 0, NoMsg, IF CanSend(sockets, ws) THEN "sent" ELSE "dropped",
                           SentOn(sockets, ws), type)
       ELSE /\ sockets' = sockets
            /\ event' = Ev(op, 0, NoMsg, "dropped", 0, "none")
  /\ called' = <<>>
  /\ UNCHANGED <<ws, isAuthenticated, participants, cursors, currentUserId, connecting,
                 reconnects, tornDown>>
  /\ UNCHANGED <<asVars, edVars, quVars, cxVars>>

sendTextChange == sendData("sendTextChange", "text_change")

sendCursorPosition == sendData("sendCursorPosition", "cursor_position")

\* the handshake of a room with one participant
ConnectionMessages ==
  {m \in HandshakeMessages : m.type = "room_joined" => Len(m.participants) = 1}

NextCollab ==
  \/ connect
  \/ TokenArrives
  \/ TokenFails
  \/ \E s \in SocketIds : onopen(s)
  \/ \E s \in SocketIds, m \in ConnectionMessages : onmessage(s, m)
  \/ \E s \in SocketIds : onclose(s)
  \/ \E s \in SocketIds : onerror(s)
  \/ ReconnectFires
  \/ disconnect
  \/ sendTextChange
  \/ sendCursorPosition

\* connect() called by a caller that connects once
connectOnce ==
  /\ ws = 0 /\ connecting = 0
  /\ connect

\* a session on one connection that stays up, and every message the
\* gateway can deliver on it
NextRoster ==
  \/ connectOnce
  \/ TokenArrives
  \/ \E s \in SocketIds : onopen(s)
  \/ \E s \in SocketIds, m \in Messages : onmessage(s, m)

\* the room traffic of the ordering check: text changes with and without
\* content of both users, and a cursor message between them
MaxInbox == 2       \* message events queued at once
MaxArrived == 3     \* messages that reach the socket in a run

QueuedMessages ==
  {Msg("text_change", h, u, NoInfo, <<>>) : h \in {{"user_id"}, {"user_id", "content"}}, u \in UserIds}
    \cup {Msg("cursor_position", {"user_id", "position"}, "u2", NoInfo, <<>>)}

\* a message of the gateway reaches the socket of the session: the browser
\* queues its message event
Arrives(m) ==
  /\ ws # 0
  /\ CanDeliver(ws, m)
  /\ Len(inbox) < MaxInbox
  /\ Len(arrived) < MaxArrived
  /\ inbox' = Append(inbox, m)
  /\ arrived' = Append(arrived, m)
  /\ UNCHANGED <<applied, asVars, edVars, coVars, cxVars>>

\* the browser dispatches the oldest queued message event to ws.onmessage
onmessageQueued ==
  /\ inbox # <<>>
  /\ ws # 0
  /\ LET m == Head(inbox)
         h == handleMessage(m)
     IN /\ CanDeliver(ws, m)
        /\ sockets' = sockets
        /\ participants' = h[1]
        /\ cursors' = h[2]
        /\ called' = h[3]
        /\ event' = Ev("onmessage", ws, m, h[4], 0, "none")
        /\ applied' = IF \E i \in 1..Len(h[3]) : h[3][i].cb = "onTextChange"
                        THEN Append(applied, m) ELSE applied
  /\ inbox' = Tail(inbox)
  /\ UNCHANGED <<ws, isAuthenticated, currentUserId, connecting, reconnects, tornDown>>
  /\ UNCHANGED <<arrived, asVars, edVars, cxVars>>

\* one connection that stays up: the handshake, then room traffic through
\* the queue of message events
NextOrder ==
  \/ connectOnce
  \/ TokenArrives
  \/ \E s \in SocketIds : onopen(s)
  \/ \E s \in SocketIds, m \in ConnectionMessages : onmessage(s, m)
  \/ \E m \in QueuedMessages : Arrives(m)
  \/ onmessageQueued

\* ------------------------------------------------------------------------
\* RichTextEditor: the codec between document trees and editor markup
\* ------------------------------------------------------------------------
MaxNodes == 2       \* nodes of a document tree
MaxRuns == 2        \* text runs of a paragraph, items of a list

\* a text node of a tree: its text and its marks, the first mark innermost
Run(text, marks) == [text |-> text, marks |-> marks]

\* attrs of a node; level 0 and Undefined are absent
Attrs(level, language, src, alt, width, height) ==
  [level |-> level, language |-> language, src |-> src, alt |-> alt,
   width |-> width, height |-> height]

NoAttrs == Attrs(0, Undefined, Undefined, Undefined, Undefined, Undefined)

\* a node of a tree: content is the text runs of a heading, paragraph or
\* code block and of the paragraph inside a blockquote; items is, for each
\* list item, the text runs of the paragraph inside it
Node(type, attrs, runs, items) ==
  [type |-> type, attrs |-> attrs, content |-> runs, items |-> items]

Doc(nodes) == [type |-> "doc", content |-> nodes]

\* the document trees of the grammar. Runs are the text runs of a
\* paragraph: plain and blank text, bare or marked, and the empty text of an
\* empty paragraph; InlineRuns are the inline children given to headings
\* and blockquotes
Trees ==
  LET SeqsUpTo(S, n) == UNION {[1..k -> S] : k \in 0..n}
      Runs ==
        {Run(t, m) : t \in {"a", " "}, m \in {<<>>, <<"strong">>, <<"strong", "em">>}}
          \cup {Run("", <<>>)}
      InlineRuns == SeqsUpTo({Run("a", <<>>), Run("b", <<"strong">>)}, MaxRuns) \ {<<>>}
      Nodes ==
        {Node("paragraph", NoAttrs, r, <<>>) : r \in SeqsUpTo(Runs, MaxRuns)}
          \cup {Node("heading", [NoAttrs EXCEPT !.level = l], r, <<>>) : l \in {1, 6}, r \in InlineRuns}
          \cup {Node(t, NoAttrs, <<>>, its) :
                  t \in {"bulletList", "orderedList"},
                  its \in SeqsUpTo({<<Run("a", <<>>)>>, <<Run("b", <<"strong">>)>>}, MaxRuns) \ {<<>>}}
          \cup {Node("blockquote", NoAttrs, r, <<>>) : r \in {<<Run("a", <<>>)>>, <<Run("b", <<"strong">>)>>}}
          \cup {Node("codeBlock", [NoAttrs EXCEPT !.language = l], <<Run("a", <<>>)>>, <<>>) : l \in {"", "js"}}
          \cup {Node("image", Attrs(0, Undefined, "http://h/i.png", "", w, "auto"), <<>>, <<>>) :
                  w \in {"auto", "10px"}}
  IN {Doc(ns) : ns \in SeqsUpTo(Nodes, MaxNodes) \ {<<>>}}

\* markup: a text wrapped in elements, tags[1] the innermost; <br> is the
\* chain of the one tag "br" around no text
Chain(tags, text) == [tags |-> tags, text |-> text]

\* a top-level element: children are its inline chains, items the chains
\* of each <li>
Elem(tag, attrs, children, items) ==
  [tag |-> tag, attrs |-> attrs, children |-> children, items |-> items]

\* the elements the marks wrap the text in; other marks wrap nothing
Tags(marks) ==
  LET MarkTag(mark) ==
        CASE mark = "strong" -> "strong"
          [] mark = "em" -> "em"
          [] mark = "underline" -> "u"
          [] mark = "code" -> "code"
          [] OTHER -> ""
      known == SelectSeq(marks, LAMBDA k : MarkTag(k) # "")
  IN [i \in 1..Len(known) |-> MarkTag(known[i])]

\* the markup as the string renderRichContent builds
RECURSIVE Wrapped(_, _, _)
Wrapped(tags, i, text) ==
  IF i > Len(tags) THEN text
  ELSE Wrapped(tags, i + 1, "<" \o tags[i] \o ">" \o text \o "</" \o tags[i] \o ">")

RECURSIVE Joined(_, _)
Joined(strs, i) == IF i > Len(strs) THEN "" ELSE strs[i] \o Joined(strs, i + 1)

InlineHtml(chains) ==
  LET ChainHtml(c) == IF c = Chain(<<"br">>, "") THEN "<br>" ELSE Wrapped(c.tags, 1, c.text)
  IN Joined([i \in 1..Len(chains) |-> ChainHtml(chains[i])], 1)

Html(markup) ==
  LET ElemHtml(e) ==
        CASE e.tag = "h" ->
               "<h" \o ToString(e.attrs.level) \o ">" \o InlineHtml(e.children)
                 \o "</h" \o ToString(e.attrs.level) \o ">"
          [] e.tag \in {"ul", "ol"} ->
               "<" \o e.tag \o ">"
                 \o Joined([i \in 1..Len(e.items) |-> "<li>" \o InlineHtml(e.items[i]) \o "</li>"], 1)
                 \o "</" \o e.tag \o ">"
          [] e.tag = "pre" ->
               "<pre><code class=\"language-" \o e.attrs.language \o "\">" \o InlineHtml(e.children)
                 \o "</code></pre>"
          [] e.tag = "img" ->
               "<img src=\"" \o e.attrs.src \o "\" alt=\"" \o e.attrs.alt \o "\" style=\"width: "
                 \o e.attrs.width \o "; height: " \o e.attrs.height \o ";\" />"
          [] OTHER -> "<" \o e.tag \o ">" \o InlineHtml(e.children) \o "</" \o e.tag \o ">"
  IN Joined([i \in 1..Len(markup) |-> ElemHtml(markup[i])], 1)

RECURSIVE Flat(_, _)
Flat(seqs, i) == IF i > Len(seqs) THEN <<>> ELSE seqs[i] \o Flat(seqs, i + 1)

\* renderRichContent: the markup of the nodes, joined. OrElse is x || d for
\* an attribute, FirstText is node.content?.[0]?.text || '', renderNode the
\* case of the switch for one node; a node of another type renders as nothing
renderRichContent(c) ==
  LET OrElse(x, d) == IF x \in {Undefined, ""} THEN d ELSE x
      FirstText(runs) == IF runs = <<>> THEN "" ELSE runs[1].text
      renderNode(node) ==
        CASE node.type = "heading" ->
               <<Elem("h", [NoAttrs EXCEPT !.level = IF node.attrs.level = 0 THEN 1 ELSE node.attrs.level],
                      <<Chain(<<>>, FirstText(node.content))>>, <<>>)>>
          [] node.type = "paragraph" ->
               LET chains == [i \in 1..Len(node.content) |->
                                Chain(Tags(node.content[i].marks), node.content[i].text)]
               IN <<Elem("p", NoAttrs,
                         IF InlineHtml(chains) = "" THEN <<Chain(<<"br">>, "")>> ELSE chains, <<>>)>>
          [] node.type \in {"bulletList", "orderedList"} ->
               <<Elem(IF node.type = "bulletList" THEN "ul" ELSE "ol", NoAttrs, <<>>,
                      [i \in 1..Len(node.items) |-> <<Chain(<<>>, FirstText(node.items[i]))>>])>>
          [] node.type = "blockquote" ->
               <<Elem("blockquote", NoAttrs, <<Chain(<<>>, FirstText(node.content))>>, <<>>)>>
          [] node.type = "codeBlock" ->
               <<Elem("pre", [NoAttrs EXCEPT !.language = OrElse(node.attrs.language, "")],
                      <<Chain(<<>>, FirstText(node.content))>>, <<>>)>>
          [] node.type = "image" ->
               <<Elem("img", Attrs(0, Undefined, node.attrs.src, OrElse(node.attrs.alt, ""),
                                   OrElse(node.attrs.width, "auto"), OrElse(node.attrs.height, "auto")),
                      <<>>, <<>>)>>
          [] OTHER -> <<>>
  IN Flat([i \in 1..Len(c.content) |-> renderNode(c.content[i])], 1)

\* the inline children after the browser parsed the string: text that is
\* not inside an element and touches other such text is one text node
RECURSIVE Merged(_)
Merged(chains) ==
  IF Len(chains) < 2 THEN chains
  ELSE IF chains[1].tags = <<>> /\ chains[2].tags = <<>>
    THEN Merged(<<Chain(<<>>, chains[1].text \o chains[2].text)>> \o SubSeq(chains, 3, Len(chains)))
    ELSE <<chains[1]>> \o Merged(Tail(chains))

\* element.innerHTML = html: the elements the browser builds from the string
innerHTML(markup) ==
  [i \in 1..Len(markup) |->
     [markup[i] EXCEPT !.children = Merged(@),
                       !.items = [j \in 1..Len(@) |-> Merged(@[j])]]]

\* element.textContent
textContent(chains) == Joined([i \in 1..Len(chains) |-> chains[i].text], 1)

\* parseTextContent: a run for every text node whose text.trim() is not
\* empty, its marks (TagMark of each parent element) read from the parents,
\* innermost first; with no such text node, one run of the whole text
parseTextContent(chains) ==
  LET IsBlank(text) == text \in {Joined([i \in 1..n |-> " "], 1) : n \in 0..(MaxRuns + 1)}
      TagMark(tag) ==
        CASE tag \in {"strong", "b"} -> "strong"
          [] tag \in {"em", "i"} -> "em"
          [] tag = "u" -> "underline"
          [] tag = "code" -> "code"
          [] OTHER -> ""
      MarksOf(tags) ==
        LET known == SelectSeq(tags, LAMBDA k : TagMark(k) # "")
        IN [i \in 1..Len(known) |-> TagMark(known[i])]
      nodes == SelectSeq(chains, LAMBDA c : c.text # "" /\ ~IsBlank(c.text))
      result == [i \in 1..Len(nodes) |-> Run(nodes[i].text, MarksOf(nodes[i].tags))]
  IN IF Len(result) > 0 THEN result ELSE <<Run(textContent(chains), <<>>)>>

\* parseHtmlToRichContent, given the elements of tempDiv; parseElement is
\* the case of the switch for one element
parseHtmlToRichContent(dom) ==
  LET parseElement(e) ==
        CASE e.tag = "h" ->
               <<Node("heading", [NoAttrs EXCEPT !.level = e.attrs.level],
                      <<Run(textContent(e.children), <<>>)>>, <<>>)>>
          [] e.tag = "p" -> <<Node("paragraph", NoAttrs, parseTextContent(e.children), <<>>)>>
          [] e.tag \in {"ul", "ol"} ->
               <<Node(IF e.tag = "ul" THEN "bulletList" ELSE "orderedList", NoAttrs, <<>>,
                      [j \in 1..Len(e.items) |-> <<Run(textContent(e.items[j]), <<>>)>>])>>
          [] e.tag = "blockquote" ->
               <<Node("blockquote", NoAttrs, <<Run(textContent(e.children), <<>>)>>, <<>>)>>
          [] e.tag = "pre" ->
               <<Node("codeBlock", [NoAttrs EXCEPT !.language = e.attrs.language],
                      <<Run(textContent(e.children), <<>>)>>, <<>>)>>
          [] e.tag = "img" ->
               <<Node("image", Attrs(0, Undefined, e.attrs.src, e.attrs.alt, e.attrs.width, e.attrs.height),
                      <<>>, <<>>)>>
          [] OTHER -> <<>>
  IN Doc(Flat([i \in 1..Len(dom) |-> parseElement(dom[i])], 1))

\* no content has gone through the codec
InitCodec ==
  /\ tree = Doc(<<>>)
  /\ html = <<>>
  /\ decoded = Doc(<<>>)
  /\ rehtml = <<>>
  /\ stage = "none"

\* the content effect renders the content prop into the editor element
RenderContent ==
  /\ stage = "tree"
  /\ html' = renderRichContent(tree)
  /\ stage' = "rendered"
  /\ UNCHANGED <<tree, decoded, rehtml>>
  /\ UNCHANGED <<asVars, edVars, coVars, quVars>>

\* the editor element is read back: parseHtmlToRichContent(innerHTML)
ParseEditor ==
  /\ stage = "rendered"
  /\ decoded' = parseHtmlToRichContent(innerHTML(html))
  /\ stage' = "parsed"
  /\ UNCHANGED <<tree, html, rehtml>>
  /\ UNCHANGED <<asVars, edVars, coVars, quVars>>

\* the parsed tree comes back as the content prop and is rendered
RenderParsed ==
  /\ stage = "parsed"
  /\ rehtml' = renderRichContent(decoded)
  /\ stage' = "rerendered"
  /\ UNCHANGED <<tree, html, decoded>>
  /\ UNCHANGED <<asVars, edVars, coVars, quVars>>

NextCodec ==
  \/ RenderContent
  \/ ParseEditor
  \/ RenderParsed

\* no message event is queued when the session is constructed
InitQueue ==
  /\ inbox = <<>>
  /\ arrived = <<>>
  /\ applied = <<>>

Init == InitAutoSave /\ InitEditor /\ constructor(LocalUser) /\ InitQueue /\ InitCodec

Next == NextAutoSave

Spec == Init /\ [][Next]_vars

\* a manager whose draft is never published: the content the gateway has
\* published stays the content the document was loaded with
NextDiscard ==
  \/ startAutoSave
  \/ stopAutoSave
  \/ destroy
  \/ \E t \in TimerIds : Tick(t)
  \/ forceSave
  \/ \E i \in 1..Len(pending) : AutoSaveSuccess(i)
  \/ \E i \in 1..Len(pending) : AutoSaveFail(i)
  \/ discardDraft
  \/ \E i \in 1..Len(pending) : OtherSuccess(i)
  \/ \E i \in 1..Len(pending) : OtherFail(i)
  \/ setGetCurrentContentCallback
  \/ setStatusCallback
  \/ \E c \in Contents : Edit(c)

DiscardSpec == Init /\ [][NextDiscard]_vars

\* the editor alone, next to a manager that is left as constructed
EditorInit == Init /\ statusCallback /\ getCurrentContentCallback

EditorSpec == EditorInit /\ [][NextEditor]_vars

\* the fairness the event loop gives: a live interval timer keeps firing and
\* every gateway call settles; the gateway does not reject autosave forever
LiveSpec ==
  /\ Init
  /\ [][Next]_vars
  /\ WF_vars(\E t \in TimerIds : Tick(t))
  /\ WF_vars(SettleAutoSave)
  /\ SF_vars(\E i \in 1..Len(pending) : AutoSaveSuccess(i))
  /\ WF_vars(SettleOther)

\* the collaboration session alone, constructed with the user's id
CollabInit == EditorInit

CollabSpec == CollabInit /\ [][NextCollab]_vars

\* a collaboration session constructed with or without a user id
RosterInit ==
  /\ InitAutoSave /\ statusCallback /\ getCurrentContentCallback
  /\ InitEditor
  /\ \E id \in {LocalUser, Undefined} : constructor(id)
  /\ InitQueue
  /\ InitCodec

RosterSpec == RosterInit /\ [][NextRoster]_vars

\* a session constructed with or without a user id, its message events queued
OrderSpec == RosterInit /\ [][NextOrder]_vars

\* the codec alone, given any document tree of the grammar
CodecInit ==
  /\ InitAutoSave /\ statusCallback /\ getCurrentContentCallback
  /\ InitEditor
  /\ constructor(LocalUser)
  /\ InitQueue
  /\ tree \in Trees
  /\ html = <<>>
  /\ decoded = Doc(<<>>)
  /\ rehtml = <<>>
  /\ stage = "tree"

CodecSpec == CodecInit /\ [][NextCodec]_vars

\* ------------------------------------------------------------------------
\* Properties of DocumentAutoSave
\* ------------------------------------------------------------------------
AutoSaves == Len(SelectSeq(pending, LAMBDA r : r.op = "autosave"))

\* the step is a call of performAutoSave (timer tick or forceSave)
IsPerformCall == last'.op \in {"tick", "forceSave"} /\ vars' # vars

\* the step is the failure continuation of performAutoSave
IsAutoSaveFail ==
  /\ last'.resp = "error"
  /\ \E i \in 1..Len(pending) : pending[i].op = "autosave" /\ pending' = Remove(pending, i)

\* the step is the success continuation of performAutoSave
IsAutoSaveSuccess ==
  /\ last'.resp = "ok"
  /\ \E i \in 1..Len(pending) : pending[i].op = "autosave" /\ pending' = Remove(pending, i)

\* C1: a performAutoSave call made while an autosave request is outstanding
\* returns false and issues nothing, and at most one autosave request is
\* outstanding in every state.
C1_AtMostOneAutoSaveInFlight ==
  /\ [](AutoSaves <= 1)
  /\ [][(IsPerformCall /\ AutoSaves >= 1) =>
          (last'.out = "false_inflight" /\ pending' = pending)]_vars

C1_Witness ==
  /\ last.out = "false_inflight"
  /\ getCurrentContentCallback
  /\ AutoSaves = 1
  /\ ~SkipClean(buffer)

\* C2: at most one gateway operation (autosave, publish, discard) of a
\* manager is outstanding in every state.
C2_AtMostOneOperationInFlight == Len(pending) <= 1

\* C3: when a save succeeds and the buffer serializes as the content that
\* was sent, the buffer is clean afterwards, and a performAutoSave call on a
\* clean buffer returns false and issues no gateway call.
C3_SkipIfClean ==
  /\ [][IsAutoSaveSuccess =>
          \A i \in 1..Len(pending) :
            (pending[i].op = "autosave" /\ Stringify(pending[i].content) = Stringify(buffer))
              => Stringify(buffer') = Stringify(lastSavedContent')]_vars
  /\ [][(IsPerformCall /\ Stringify(buffer) = Stringify(lastSavedContent)) =>
          (last'.out \in {"false_clean", "false_inflight"} /\ pending' = pending)]_vars

C3_Witness ==
  /\ last.out = "false_clean"
  /\ lastSavedContent.t = "object"
  /\ buffer = lastSavedContent
  /\ pending = <<>>

\* C4: when the gateway call of performAutoSave fails, the call returns
\* false, a status with isError = TRUE is reported to the registered
\* callback, the snapshot is untouched, and a following performAutoSave
\* with the same content is not skipped.
C4_FailureKeepsSnapshot ==
  [][IsAutoSaveFail =>
       /\ last'.out = "false"
       /\ lastSavedContent' = lastSavedContent
       /\ statusCallback => (Len(emitted') = 1 /\ emitted'[1].isError /\ ~emitted'[1].isAutoSaving)
       /\ \A i \in 1..Len(pending) :
            (pending[i].op = "autosave" /\ getCurrentContentCallback'
               /\ Stringify(buffer') = Stringify(pending[i].content))
              => (~SkipInFlight' /\ ~SkipClean(buffer)')]_vars

C4_Witness ==
  /\ last = Resumed("performAutoSave", "false", "error")
  /\ Len(emitted) = 1
  /\ emitted[1].isError
  /\ getCurrentContentCallback
  /\ lastSavedContent.t = "object"
  /\ ~SkipInFlight
  /\ ~SkipClean(buffer)

\* C5: once the edits stop, with a live timer and a registered content
\* callback, a buffer that differs from the snapshot is eventually saved (the
\* snapshot serializes as the buffer), whatever failed before.
Dirty == activeTimers # {} /\ getCurrentContentCallback /\ ~SkipClean(buffer)

C5_EventuallySaved ==
  (<>[][buffer' = buffer]_vars) =>
     (Dirty ~> (SkipClean(buffer) \/ activeTimers = {} \/ ~getCurrentContentCallback))

C5_Witness ==
  /\ activeTimers # {}
  /\ getCurrentContentCallback
  /\ lastSavedContent # Null
  /\ SkipClean(buffer)
  /\ last = Resumed("performAutoSave", "true", "ok")

\* C8: at most one interval timer of a manager is alive, and it is the one
\* the manager holds the handle of.
C8_AtMostOneTimer ==
  /\ Cardinality(activeTimers) <= 1
  /\ activeTimers = (IF autoSaveInterval = 0 THEN {} ELSE {autoSaveInterval})

C8_Witness ==
  /\ last = Outcome("startAutoSave", "restarted")
  /\ Cardinality(activeTimers) = 1

\* getStatus().isActive
IsActive == autoSaveInterval # 0

\* C9: after stopAutoSave or destroy no timer is alive, a timer tick happens
\* only while the manager is active, and isActive is true exactly while a
\* timer is alive.
C9_StoppedTimerNeverFires ==
  /\ [](IsActive <=> activeTimers # {})
  /\ [][(last'.op \in {"stopAutoSave", "destroy"} /\ vars' # vars) =>
          (activeTimers' = {} /\ ~IsActive')]_vars
  /\ [][(last'.op = "tick" /\ vars' # vars) => IsActive]_vars

C9_Witness ==
  /\ last.op \in {"stopAutoSave", "destroy"}
  /\ last.out = "cleared"
  /\ AutoSaves = 1

\* C10: after publishDraft or discardDraft succeeded the manager holds no
\* snapshot.
C10_SnapshotDiscarded ==
  (last.op \in {"publishDraft", "discardDraft"} /\ last.out = "true") => lastSavedContent = Null

\* the content the gateway has published while no draft was published
PublishedContent == Wire(LoadedContent)

\* C11: after discardDraft succeeded the buffer holds the content the gateway
\* has published, not the draft that was discarded, and after discardDraft
\* failed the buffer is what it was.
C11_DiscardReloadsBuffer ==
  /\ [](last = Resumed("discardDraft", "true", "ok")
          => Stringify(buffer) = Stringify(PublishedContent))
  /\ [][(last'.op = "discardDraft" /\ last'.resp = "error") => buffer' = buffer]_vars

\* the status a step that issues or settles a gateway call has to report
IssueReported ==
  /\ Len(emitted') = 1
  /\ emitted'[1].isAutoSaving
  /\ ~emitted'[1].isError

SettleReported ==
  /\ Len(emitted') = 1
  /\ ~emitted'[1].isAutoSaving
  /\ emitted'[1].isError = (last'.resp = "error")

\* C24 as stated: a registered status callback is called exactly once, with
\* isAutoSaving = TRUE, by each step that issues a gateway call, exactly once,
\* with isAutoSaving = FALSE and isError = TRUE exactly on failure, by each
\* step that settles one, and by no other step (in particular not by a
\* skipped performAutoSave).
C24_StatusOnlyOnTransitions ==
  [][(vars' # vars) =>
       /\ ~statusCallback => emitted' = <<>>
       /\ statusCallback =>
            CASE last'.out = "issued" -> IssueReported
              [] last'.resp # "none" -> SettleReported
              [] OTHER -> emitted' = <<>>]_vars

\* C24 as amended: as above, and startAutoSave reports one status, "Auto-save
\* enabled", that is neither busy nor an error.
C24_StatusOnTransitionsAndStart ==
  [][(vars' # vars) =>
       /\ ~statusCallback => emitted' = <<>>
       /\ statusCallback =>
            CASE last'.out = "issued" -> IssueReported
              [] last'.resp # "none" -> SettleReported
              [] last'.op = "startAutoSave" ->
                   emitted' = <<Status(FALSE, FALSE, "Auto-save enabled", FALSE)>>
              [] OTHER -> emitted' = <<>>]_vars

C24_Witness ==
  /\ last = Resumed("publishDraft", "false", "error")
  /\ emitted = <<Status(FALSE, TRUE, "Publish failed", TRUE)>>
  /\ AutoSaves = 1

\* C25: when an autosave succeeds the snapshot is the content that was sent,
\* whatever the buffer holds by then; if the buffer serializes differently by
\* then it is not clean, and a performAutoSave call that is not skipped sends
\* the buffer as it is at the call.
C25_SnapshotIsWhatWasSent ==
  /\ [][IsAutoSaveSuccess =>
          \A i \in 1..Len(pending) :
            (pending[i].op = "autosave" /\ pending' = Remove(pending, i)) =>
              /\ lastSavedContent' = pending[i].content
              /\ Stringify(buffer') # Stringify(pending[i].content) =>
                   (~SkipClean(buffer)' /\ ~isAutoSaving')]_vars
  /\ [][(IsPerformCall /\ ~SkipInFlight /\ ~SkipClean(buffer)) =>
          /\ last'.out = "issued"
          /\ pending' = Enqueue(pending, Request("autosave", buffer))]_vars

C25_Witness ==
  /\ last = Resumed("performAutoSave", "true", "ok")
  /\ lastSavedContent = Obj(1, "doc", "a")
  /\ buffer = Obj(1, "doc", "b")
  /\ getCurrentContentCallback
  /\ ~SkipInFlight
  /\ ~SkipClean(buffer)

\* C30: the in-flight flag is set exactly while an autosave request is
\* outstanding, and it is clear after every step in which an autosave request
\* settles, by success or by failure.
C30_FlagFollowsRequest ==
  /\ [](isAutoSaving <=> AutoSaves = 1)
  /\ [][(IsAutoSaveSuccess \/ IsAutoSaveFail) => ~isAutoSaving']_vars

C30_Witness ==
  /\ last = Resumed("performAutoSave", "false", "error")
  /\ ~isAutoSaving
  /\ AutoSaves = 0
  /\ Others = 1

\* ------------------------------------------------------------------------
\* Properties of DocumentEditor
\* ------------------------------------------------------------------------
EdAutoSaves == Len(SelectSeq(requests, LAMBDA r : r.op = "autosave"))

\* the content or the title differs by value from what was last loaded or saved
StructurallyDirty ==
  \/ title # synced.title
  \/ Stringify(Wire(contentToSave(actualDocumentType, content))) # Stringify(synced.content)

\* C6: the editor initiates an autosave request only in a state in which the
\* title or the content differs by value from what was last loaded from or
\* saved to the gateway.
C6_AutoSaveOnlyWhenDirty ==
  [][EdAutoSaves' > EdAutoSaves => StructurallyDirty]_vars

\* C7: every content value the editor hands to the gateway's autoSave is a
\* document object, never a raw string.
C7_OnlyDocumentObjectsSent ==
  \A i \in 1..Len(requests) :
    requests[i].op = "autosave" => (requests[i].content.t = "object" /\ requests[i].content.ty = "doc")

\* the step is a change of content or title of a component that stays mounted
IsChange == mounted' /\ (content' # content \/ title' # title)

\* C27: at most one auto-save timeout is pending in every state, a change
\* of content or title leaves only the timeout it started, and no auto-save
\* request is sent in the step in which content or title changes.
C27_SaveOnlyAfterQuietPeriod ==
  /\ [](Cardinality(timeouts) <= 1)
  /\ [][IsChange => timeouts' \subseteq {autoSaveTimer'}]_vars
  /\ [][IsChange => EdAutoSaves' <= EdAutoSaves]_vars

\* the requests of saveDocument and publishDraft calls (the reload of a
\* publish included) that have not settled
Saves == SelectSeq(requests, LAMBDA r : r.path \in {"timer", "titleSubmit", "publish"})

\* C28: while the component is mounted, saving is TRUE in every state in
\* which a request of a saveDocument or publishDraft call is outstanding.
C28_SavingWhileInFlight == (mounted /\ Saves # <<>>) => saving

\* the content as saveDocument would serialize it
Held == Stringify(Wire(contentToSave(actualDocumentType, content)))

Reloads == Len(SelectSeq(requests, LAMBDA r : r.op = "getDocument" /\ r.path = "publish"))

\* the editor holds an edit the gateway has not been sent: the content
\* differs by value from what was last loaded or saved and no outstanding
\* auto-save request carries it
UnsentEdit ==
  /\ Held # Stringify(synced.content)
  /\ \A i \in 1..Len(requests) :
       requests[i].op = "autosave" => Stringify(requests[i].content) # Held

\* C29: when the reload that follows a successful publish answers while the
\* mounted editor holds an edit the gateway has not been sent, the content
\* of the editor is by value what it was before the reload.
C29_PublishKeepsEdits ==
  [][(mounted /\ UnsentEdit /\ Reloads' < Reloads) => Held' = Held]_vars

\* ------------------------------------------------------------------------
\* Properties of CollaborativeEditor
\* ------------------------------------------------------------------------
\* C12: a message goes out only on an open socket, the first message that
\* goes out on a socket is authenticate, and join_room goes out only on a
\* socket on which authenticated was received.
C12_HandshakeInOrder ==
  /\ [][\A s \in SocketIds : event'.sentOn = s =>
            /\ sockets'[s].readyState = "OPEN"
            /\ sockets[s].sent = {} => event'.sentType = "authenticate"]_vars
  /\ [][\A s \in SocketIds : (event'.sentOn = s /\ event'.sentType = "join_room") =>
            "authenticated" \in sockets'[s].got]_vars

\* C13: sendTextChange and sendCursorPosition put a message on the
\* transport only while the session is Active.
C13_DataOnlyWhileActive ==
  (event.op \in {"sendTextChange", "sendCursorPosition"} /\ event.sentOn # 0) => Active

\* C14: a text_change of the local participant never reaches onTextChange,
\* a text_change of another participant reaches it exactly once.
C14_EchoSuppressed ==
  (event.op = "onmessage" /\ event.msg \in RoomMessages /\ event.msg.type = "text_change") =>
     called = (IF event.msg.user_id = LocalUser
                 THEN <<>>
                 ELSE <<Cb("onTextChange", event.msg.user_id)>>)

C16_NoReconnectAfterDisconnect ==
  [][(tornDown /\ event'.op = "timeout") => event'.out = "skipped"]_vars

\* C17: the close of a socket the gateway rejected starts no reconnect
\* timeout, the close of any other socket starts one.
C17_AuthFailureIsTerminal ==
  /\ [][(event'.op = "onclose" /\ event'.out = "rejected") => reconnects' = reconnects]_vars
  /\ [][(event'.op = "onclose" /\ event'.out # "rejected") => reconnects' = reconnects + 1]_vars

\* C18: a malformed message changes neither the connection state nor the
\* roster.
C18_MalformedIgnored ==
  [][(event'.op = "onmessage" /\ event'.msg \in MalformedMessages) =>
       /\ participants' = participants
       /\ isAuthenticated' = isAuthenticated
       /\ ws' = ws
       /\ sockets' = sockets]_vars

\* the fields of a roster entry
Fields == {"user_role", "cursor_position"}

\* C19: a user_presence for a participant in the roster keeps every field
\* of the entry that the message does not carry.
C19_PresenceMerges ==
  [][(/\ event'.op = "onmessage"
      /\ event'.msg \in RoomMessages
      /\ event'.msg.type = "user_presence"
      /\ event'.msg.user_id \in DOMAIN participants) =>
        \A f \in Fields :
          event'.msg.user_info[f] = Undefined =>
            participants'[event'.msg.user_id][f] = participants[event'.msg.user_id][f]]_vars

\* the ids of a participant list
IdsOf(ps) == {ps[i].user : i \in 1..Len(ps)}

Remote(q) == SelectSeq(q, LAMBDA m : m.type = "text_change" /\ m.user_id # LocalUser)

\* C21: the messages handed to onTextChange, followed by the text changes of
\* remote senders still queued, are the text changes of remote senders that
\* reached the socket, in arrival order: none dropped, duplicated, reordered
\* or added.
C21_TextChangesInArrivalOrder == applied \o Remote(inbox) = Remote(arrived)

\* the WebSocket objects of the session that are connecting or open: their
\* handlers deliver to handleMessage
Live == {s \in SocketIds : sockets[s].readyState \in {"CONNECTING", "OPEN"}}

\* C26: at most one WebSocket object of the session is connecting or open in
\* every state.
C26_AtMostOneLiveTransport == Cardinality(Live) <= 1

\* ------------------------------------------------------------------------
\* Properties of the RichTextEditor codec
\* ------------------------------------------------------------------------
\* empty-paragraph normalization: a paragraph without children is a
\* paragraph around one empty text
Normal(t) ==
  Doc([i \in 1..Len(t.content) |->
         IF t.content[i].type = "paragraph" /\ t.content[i].content = <<>>
           THEN [t.content[i] EXCEPT !.content = <<Run("", <<>>)>>]
           ELSE t.content[i]])

\* C22: the tree parsed from the rendered markup of a tree is that tree, up
\* to empty-paragraph normalization.
C22_CodecRoundTrip == stage \in {"parsed", "rerendered"} => Normal(decoded) = Normal(tree)

\* C23: rendering the tree parsed from the rendered markup of a tree gives
\* the same string as rendering the tree.
C23_IdempotentReEncode == stage = "rerendered" => Html(rehtml) = Html(html)

====
